---- MODULE Spec2Model ----
(***************************************************************************)
(* Hierarchical tick orchestration of the tactical simulation:             *)
(* DirectorAgent -> ForceLeader (Red, Blue) -> SubAgent, with the decision *)
(* service (the chat-completion client) as a nondeterministic input.       *)
(* Strings are TLA+ strings, built and inspected as the Python code builds *)
(* and inspects them (f-strings, lower(), startswith(), "in", join()).     *)
(***************************************************************************)
EXTENDS Integers, Sequences, FiniteSets, TLC

VARIABLES
    num_units,     \* DirectorAgent.num_units
    debug_mode,    \* TRUE when setup_debug_mode() replaced openai.OpenAI
    global_state,  \* DirectorAgent.global_state
    event_logs,    \* DirectorAgent.event_logs
    red_force,     \* DirectorAgent.red_force
    blue_force,    \* DirectorAgent.blue_force
    current_tick,  \* SimulationEngine.current_tick
    ddil_level,    \* utils.config.DDIL_LEVEL, as process_feed reads it
    last_op,       \* the handler that ran last, with its argument
    calls,         \* decision-service calls made by the last handler, in order
    ret,           \* value returned by the last handler
    threads        \* the callers inside orchestrate_simulation, step by step

vars == <<num_units, debug_mode, global_state, event_logs, red_force,
          blue_force, current_tick, ddil_level, last_op, calls, ret, threads>>

-----------------------------------------------------------------------------
(* Bounds of the model.                                                    *)

MaxUnits == 2

MaxTicks == 2

MaxLog == 7

MaxCmds == 1

-----------------------------------------------------------------------------
(* Python string operations.                                               *)

\* str.lower() on one character
ToLower ==
    [c \in {"A", "B", "C", "D", "E", "F", "G", "H", "I", "J", "K", "L", "M",
            "N", "O", "P", "Q", "R", "S", "T", "U", "V", "W", "X", "Y", "Z"} |->
        CASE c = "A" -> "a" [] c = "B" -> "b" [] c = "C" -> "c" [] c = "D" -> "d"
          [] c = "E" -> "e" [] c = "F" -> "f" [] c = "G" -> "g" [] c = "H" -> "h"
          [] c = "I" -> "i" [] c = "J" -> "j" [] c = "K" -> "k" [] c = "L" -> "l"
          [] c = "M" -> "m" [] c = "N" -> "n" [] c = "O" -> "o" [] c = "P" -> "p"
          [] c = "Q" -> "q" [] c = "R" -> "r" [] c = "S" -> "s" [] c = "T" -> "t"
          [] c = "U" -> "u" [] c = "V" -> "v" [] c = "W" -> "w" [] c = "X" -> "x"
          [] c = "Y" -> "y" [] c = "Z" -> "z"]

LowerChar(c) == IF c \in DOMAIN ToLower THEN ToLower[c] ELSE c

\* the characters i..j of s lowered, by halves
RECURSIVE LowerFrom(_, _, _)
LowerFrom(s, i, j) ==
    IF i > j THEN ""
    ELSE IF i = j THEN LowerChar(SubSeq(s, i, i))
    ELSE LowerFrom(s, i, (i + j) \div 2) \o LowerFrom(s, (i + j) \div 2 + 1, j)

\* Python: s.lower()
Lower(s) == LowerFrom(s, 1, Len(s))

\* Python: sub in s
Contains(s, sub) ==
    \E i \in 1..(Len(s) - Len(sub) + 1) : SubSeq(s, i, i + Len(sub) - 1) = sub

\* Python: s.startswith(p)
StartsWith(s, p) ==
    Len(s) >= Len(p) /\ SubSeq(s, 1, Len(p)) = p

\* Python: "\n".join(lines)
RECURSIVE JoinLines(_)
JoinLines(lines) ==
    IF Len(lines) = 0 THEN ""
    ELSE IF Len(lines) = 1 THEN lines[1]
    ELSE lines[1] \o "\n" \o JoinLines(Tail(lines))

\* the one element of a singleton set: Only({e(x) : x \in {v}}) is e(v) with
\* v evaluated once, as an assignment to a local variable evaluates it once
Only(S) == CHOOSE x \in S : TRUE

\* Python: str((x, y)) of a tuple of two ints
PosStr(p) == "(" \o ToString(p[1]) \o ", " \o ToString(p[2]) \o ")"

-----------------------------------------------------------------------------
(* The decision service: client.chat.completions.create(...).              *)
(* An outcome is a completion carrying a text ("ok"), a completion whose   *)
(* message content is None ("none"), or an exception whose str() is the    *)
(* text ("raise").                                                         *)

\* main.py, setup_debug_mode: the texts the dummy client answers with
\* (two of the five, one with and one without a movement token).
DummyResponses == {"Advance to the next checkpoint.", "Hold the position."}

\* a text the real client answers with
RealResponses == {"Advance to the next checkpoint."}

\* str(e) of an exception raised by the real client
ServiceErrors == {"Connection error."}

Completion(text) == [kind |-> "ok", text |-> text]

Failure(text) == [kind |-> "raise", text |-> text]

\* a completion with message.content = None; str(None) is "None"
NoContent == [kind |-> "none", text |-> "None"]

\* The dummy client never raises; the real client answers or raises.
ServiceOutcomes(dbg) ==
    IF dbg THEN {Completion(t) : t \in DummyResponses}
    ELSE {Completion(t) : t \in RealResponses}
         \cup {Failure(e) : e \in ServiceErrors}

\* completion.choices[0].message.get("content", "No decision generated.")
\* The dummy client's message is type("Message", (), {"content": content})():
\* it has the attribute content and no method get, so the call raises
\* AttributeError.  The message of the real client is taken to answer get.
MessageGet(out, dbg) ==
    IF dbg
    THEN [raised |-> TRUE,  value |-> "'Message' object has no attribute 'get'"]
    ELSE [raised |-> FALSE, value |-> out.text]

\* decision.lower() raises AttributeError when the content was None
LowerRaises(out, dbg) ==
    out.kind = "none" /\ ~MessageGet(out, dbg).raised

\* completion.choices[0].message.content
MessageContent(out, dbg) == out.text

-----------------------------------------------------------------------------
(* agents/sub_agent.py                                                     *)

\* random.randint(1, 10)
MinDelta == 1

MaxDelta == 10

\* the displacements the orchestration model draws from
DeltaSamples == {MinDelta, MaxDelta}

\* SubAgent.__init__
NewSubAgent(id, role, pos) ==
    [id |-> id, role |-> role, position |-> pos, status |-> "Ready",
     context |-> <<>>]

\* the try/except around the decision-service call
SubAgentDecision(out, dbg) ==
    IF out.kind = "raise"
    THEN "Error generating decision: " \o out.text
    ELSE LET m == MessageGet(out, dbg)
         IN  IF m.raised THEN "Error generating decision: " \o m.value
             ELSE m.value

\* the movement tokens looked for in the decision as answered, not lowered
Moves_CaseSensitive(decision) ==
    Contains(decision, "advance") \/ Contains(decision, "move")

\* "advance" in decision_lower or "move" in decision_lower
Moves(decision) ==
    \E decision_lower \in {Lower(decision)} :
        Contains(decision_lower, "advance") \/ Contains(decision_lower, "move")

\* a movement that displaces the first coordinate only
SubAgentAct_MoveX(agent, decision, moved, delta) ==
    LET new_pos == <<agent.position[1] + delta, agent.position[2]>>
        final   == IF moved
                   THEN decision \o " [Movement: position updated from "
                        \o PosStr(agent.position) \o " to " \o PosStr(new_pos)
                        \o "]."
                   ELSE decision \o " [No movement executed]."
    IN  Only({[raised |-> FALSE, err |-> "",
               agent |-> [agent EXCEPT
                            !.position = IF moved THEN new_pos ELSE @,
                            !.context = Append(@, f)],
               event |-> agent.id \o " decision: " \o f] : f \in {final}})

\* SubAgent.process_tick after the try/except: the movement heuristic, the
\* annotation, the context update and the event
SubAgentAct(agent, decision, moved, delta) ==
    LET new_pos == <<agent.position[1] + delta, agent.position[2] + delta>>
        final   == IF moved
                   THEN decision \o " [Movement: position updated from "
                        \o PosStr(agent.position) \o " to " \o PosStr(new_pos)
                        \o "]."
                   ELSE decision \o " [No movement executed]."
    IN  Only({[raised |-> FALSE, err |-> "",
               agent |-> [agent EXCEPT
                            !.position = IF moved THEN new_pos ELSE @,
                            !.context = Append(@, f)],
               event |-> agent.id \o " decision: " \o f] : f \in {final}})

\* SubAgent.process_tick without the try/except around the service call: a
\* failure of the service escapes process_tick
SubAgentTick_Unguarded(agent, out, dbg, delta) ==
    IF out.kind = "raise"
    THEN [raised |-> TRUE, err |-> out.text, agent |-> agent, event |-> ""]
    ELSE Only({Only({SubAgentAct(agent, decision, moved, delta) :
                        moved \in {Moves(decision)}}) :
                  decision \in {SubAgentDecision(out, dbg)}})

\* SubAgent.process_tick with the movement heuristic passed over when the
\* decision is the text substituted for a failed call
SubAgentTick_ErrorsHold(agent, out, dbg, delta) ==
    IF LowerRaises(out, dbg)
    THEN [raised |-> TRUE, err |-> "'NoneType' object has no attribute 'lower'",
          agent |-> agent, event |-> ""]
    ELSE Only({Only({SubAgentAct(agent, decision, moved, delta) :
                        moved \in {Moves(decision) /\ out.kind # "raise"}}) :
                  decision \in {SubAgentDecision(out, dbg)}})

\* SubAgent.process_tick: the agent after the tick and the event returned,
\* or the exception that escapes (raised, with err its str()).
SubAgentTick(agent, out, dbg, delta) ==
    IF LowerRaises(out, dbg)
    THEN [raised |-> TRUE, err |-> "'NoneType' object has no attribute 'lower'",
          agent |-> agent, event |-> ""]
    ELSE Only({Only({SubAgentAct(agent, decision, moved, delta) :
                        moved \in {Moves(decision)}}) :
                  decision \in {SubAgentDecision(out, dbg)}})

\* a unit that counts the tick itself in the state object it was handed
SubAgentLocalState_CountsTick(agent, local_state) ==
    [local_state EXCEPT !.tick = @ + 1]

\* SubAgent.process_tick: the state object handed in by reference, as the
\* call leaves it (the unit only formats it into its prompt)
SubAgentLocalState(agent, local_state) == local_state

\* SubAgent.update_context
UpdateContext(agent, message) ==
    [agent EXCEPT !.context = Append(@, message)]

\* Python: str(d) of the state dictionary the director keeps
DictStr(d) ==
    "{'scenario': '" \o d.scenario \o "', 'location': '" \o d.location
    \o "', 'situation': '" \o d.situation \o "', 'tick': "
    \o ToString(d.tick) \o "}"

\* the number of context entries a prompt carries: self.context[-5:]
ContextWindow == 5

\* Python: seq[-n:]
TakeLast(seq, n) ==
    IF Len(seq) <= n THEN seq ELSE SubSeq(seq, Len(seq) - n + 1, Len(seq))

\* the context entries a prompt carries, were they context[:5]
PastContext_FirstFive(agent) ==
    SubSeq(agent.context, 1,
           IF Len(agent.context) < ContextWindow THEN Len(agent.context)
           ELSE ContextWindow)

\* self.context[-5:]
PastContext(agent) == TakeLast(agent.context, ContextWindow)

\* the closing instruction of a unit's prompt
SubAgentInstruction ==
    "Based on the above, decide on your next tactical action. "
    \o "Possible actions include: advancing to a new position, holding position, or engaging an enemy. "
    \o "Provide a concise description of the chosen action and update your position if applicable."

\* SubAgent.process_tick: prompt_context and the prompt sent to the service
SubAgentPrompt(agent, local_state) ==
    LET prompt_context ==
            "Agent ID: " \o agent.id \o "\n"
            \o "Role: " \o agent.role \o "\n"
            \o "Current Position: " \o PosStr(agent.position) \o "\n"
            \o "Status: " \o agent.status \o "\n"
            \o "Local State: " \o DictStr(local_state) \o "\n"
            \o "Past Context:\n" \o JoinLines(PastContext(agent))
    IN  prompt_context \o "\n" \o SubAgentInstruction

-----------------------------------------------------------------------------
(* agents/force_leader.py                                                  *)

\* random.randint(0, 100) twice in SubAgent.__init__: one fixed draw per unit
StartPosition(team, i) ==
    IF team = "Red" THEN <<10 * i, 5 * i>> ELSE <<100 - 10 * i, 90 + i>>

\* the subordinates numbered from 0, as range(num_units) numbers them
NewForceLeader_ZeroBased(team_color, n, objective) ==
    [team_color |-> team_color, num_units |-> n, objective |-> objective,
     sub_agents |-> [i \in 1..n |->
                       NewSubAgent(team_color \o "_Squad_" \o ToString(i - 1),
                                   "Squad Commander",
                                   StartPosition(team_color, i))],
     event_logs |-> <<>>]

\* ForceLeader.__init__
NewForceLeader(team_color, n, objective) ==
    [team_color |-> team_color, num_units |-> n, objective |-> objective,
     sub_agents |-> [i \in 1..n |->
                       NewSubAgent(team_color \o "_Squad_" \o ToString(i),
                                   "Squad Commander",
                                   StartPosition(team_color, i))],
     event_logs |-> <<>>]

\* the events a leader's prompt would list, were it built from the force's
\* whole log and this tick's events
LeaderPromptEvents_WholeLog(force, subordinate_events) ==
    force.event_logs \o subordinate_events

\* for event in subordinate_events
LeaderPromptEvents(force, subordinate_events) == subordinate_events

\* prompt += f"- {event}\n" for each event
RECURSIVE EventLines(_)
EventLines(events) ==
    IF Len(events) = 0 THEN ""
    ELSE "- " \o Head(events) \o "\n" \o EventLines(Tail(events))

\* ForceLeader.generate_decision_summary: the prompt sent to the service
LeaderPrompt(force, subordinate_events, state) ==
    "As the " \o force.team_color \o " Force Leader with objective '"
    \o force.objective \o "', review the following events:\n"
    \o EventLines(LeaderPromptEvents(force, subordinate_events))
    \o "Current simulation tick: " \o ToString(state.tick) \o "\n"
    \o "Based on these events, what is the most reasonable next action for your force? "
    \o "Provide a concise summary."

\* ForceLeader.generate_decision_summary: the event returned
GenerateDecisionSummary(force, out, dbg) ==
    LET summary == IF out.kind = "raise"
                   THEN "Error generating decision summary: " \o out.text
                   ELSE MessageContent(out, dbg)
    IN  force.team_color \o " Leader Decision: " \o summary

\* ForceLeader.process_tick, the loop over self.sub_agents: the result of
\* each subordinate's process_tick, in creation order
SubAgentResults(force, outs, deltas, dbg) ==
    SubSeq([i \in 1..Len(force.sub_agents) |->
              SubAgentTick(force.sub_agents[i], outs[i], dbg, deltas[i])],
           1, Len(force.sub_agents))

\* ForceLeader.process_tick with the leader's summary put first
ForceLeaderCollect_LeaderFirst(force, res, leader_out, dbg) ==
    LET n       == Len(force.sub_agents)
        subs    == [i \in 1..n |-> res[i].event]
        summary == GenerateDecisionSummary(force, leader_out, dbg)
    IN  Only({[raised |-> FALSE, err |-> "",
               force  |-> [force EXCEPT
                             !.sub_agents = [i \in 1..n |-> res[i].agent],
                             !.event_logs = @ \o tick_events],
               events |-> tick_events] : tick_events \in {<<summary>> \o subs}})

\* ForceLeader.process_tick with the summary made only when there are
\* subordinate events to summarise
ForceLeaderCollect_SkipEmpty(force, res, leader_out, dbg) ==
    LET n       == Len(force.sub_agents)
        subs    == [i \in 1..n |-> res[i].event]
        summary == GenerateDecisionSummary(force, leader_out, dbg)
    IN  Only({[raised |-> FALSE, err |-> "",
               force  |-> [force EXCEPT
                             !.sub_agents = [i \in 1..n |-> res[i].agent],
                             !.event_logs = @ \o tick_events],
               events |-> tick_events] :
              tick_events \in {IF n = 0 THEN <<>> ELSE Append(subs, summary)}})

\* ForceLeader.process_tick with the loop left at the first subordinate whose
\* event reports a failure: the later subordinates' events are missing
ForceLeaderCollect_StopAtError(force, res, leader_out, dbg) ==
    LET n       == Len(force.sub_agents)
        failed  == {i \in 1..n : Contains(res[i].event, "Error generating")}
        kept    == IF failed = {} THEN n
                   ELSE CHOOSE i \in failed : \A j \in failed : i <= j
        subs    == [i \in 1..kept |-> res[i].event]
        summary == GenerateDecisionSummary(force, leader_out, dbg)
    IN  Only({[raised |-> FALSE, err |-> "",
               force  |-> [force EXCEPT
                             !.sub_agents = [i \in 1..n |-> res[i].agent],
                             !.event_logs = @ \o tick_events],
               events |-> tick_events] : tick_events \in {Append(subs, summary)}})

\* ForceLeader.process_tick after the loop, res the subordinates' results;
\* nothing in it raises, so the result is never an exception (raised)
ForceLeaderCollect(force, res, leader_out, dbg) ==
    LET n       == Len(force.sub_agents)
        subs    == [i \in 1..n |->
                      IF res[i].raised
                      THEN "Error processing tick for " \o force.sub_agents[i].id
                           \o ": " \o res[i].err
                      ELSE res[i].event]
        summary == GenerateDecisionSummary(force, leader_out, dbg)
    IN  Only({[raised |-> FALSE, err |-> "",
               force  |-> [force EXCEPT
                             !.sub_agents = [i \in 1..n |-> res[i].agent],
                             !.event_logs = @ \o tick_events],
               events |-> tick_events] : tick_events \in {Append(subs, summary)}})

\* ForceLeader.process_tick: outs[i] is the service's outcome for
\* subordinate i, outs[n+1] the outcome for the leader's own call.
ForceLeaderTick(force, outs, deltas, dbg) ==
    Only({ForceLeaderCollect(force, res, outs[Len(force.sub_agents) + 1], dbg) :
             res \in {SubAgentResults(force, outs, deltas, dbg)}})

\* the ways ForceLeader.process_tick itself fails: not at all, or with an
\* exception raised after the loop, before the leader's own service call
NoFault == ""

ForceFaults == {"unexpected failure"}

\* ForceLeader.process_tick, fault the exception that escapes it (if any):
\* the subordinates have been processed, the leader's summary and the
\* force's own log entry have not been made
ForceLeaderTickOrFault(force, outs, deltas, dbg, fault) ==
    IF fault = NoFault THEN ForceLeaderTick(force, outs, deltas, dbg)
    ELSE Only({[raised |-> TRUE, err |-> fault,
                force  |-> [force EXCEPT
                              !.sub_agents = [i \in 1..Len(force.sub_agents) |->
                                                res[i].agent]],
                events |-> <<>>] :
               res \in {SubAgentResults(force, outs, deltas, dbg)}})

\* ForceLeader.process_tick: the state object handed in by reference, as the
\* call leaves it, after it went through every subordinate's process_tick
\* and generate_decision_summary (which reads its tick)
RECURSIVE PassToAgents(_, _, _)
PassToAgents(agents, i, state) ==
    IF i > Len(agents) THEN state
    ELSE PassToAgents(agents, i + 1, SubAgentLocalState(agents[i], state))

ForceLeaderGlobalState(force, state) == PassToAgents(force.sub_agents, 1, state)

\* the order broadcast without the entry in the leader's own log
ReceiveDirectOrder_Unlogged(force, order) ==
    [force EXCEPT
       !.sub_agents = [i \in 1..Len(force.sub_agents) |->
                         UpdateContext(force.sub_agents[i],
                                       "Received direct order: " \o order)]]

\* the order broadcast to all subordinates but the first
ReceiveDirectOrder_SkipFirst(force, order) ==
    [force EXCEPT
       !.event_logs = Append(@, force.team_color
                                 \o " Leader received direct order: " \o order),
       !.sub_agents = [i \in 1..Len(force.sub_agents) |->
                         IF i = 1 THEN force.sub_agents[i]
                         ELSE UpdateContext(force.sub_agents[i],
                                            "Received direct order: " \o order)]]

\* ForceLeader.receive_direct_order
ReceiveDirectOrder(force, order) ==
    [force EXCEPT
       !.event_logs = Append(@, force.team_color
                                 \o " Leader received direct order: " \o order),
       !.sub_agents = [i \in 1..Len(force.sub_agents) |->
                         UpdateContext(force.sub_agents[i],
                                       "Received direct order: " \o order)]]

\* the service calls of one ForceLeader.process_tick, in the order made
ForceCalls(force, outs) ==
    [i \in 1..(Len(force.sub_agents) + 1) |->
        [caller  |-> IF i <= Len(force.sub_agents) THEN force.sub_agents[i].id
                     ELSE force.team_color \o " Leader",
         outcome |-> outs[i]]]

\* the same when process_tick may fail: the leader's call is not reached
ForceCallsMade(force, outs, fault) ==
    IF fault = NoFault THEN ForceCalls(force, outs)
    ELSE SubSeq(ForceCalls(force, outs), 1, Len(force.sub_agents))

-----------------------------------------------------------------------------
(* agents/director.py                                                      *)

\* the marker formatted with the tick number read before the increment
TickMarker_Stale(tick) == "--- Tick " \o ToString(tick - 1) \o " ---"

\* f"--- Tick {tick} ---"
TickMarker(tick) == "--- Tick " \o ToString(tick) \o " ---"

\* the scan run forward: it stops at the first marker of the log
LastTickIndex_First(logs) ==
    LET marks == {i \in 1..Len(logs) : StartsWith(logs[i], "--- Tick")}
    IN  IF marks = {} THEN 0 ELSE CHOOSE i \in marks : \A j \in marks : i <= j

\* the except clause that swallows the failure without an event
ForceEvents_Silent(team_color, r) ==
    IF r.raised THEN <<>> ELSE r.events

\* DirectorAgent.orchestrate_simulation, one try/except block: the events a
\* force's process_tick contributes, r its result or the exception it raised
ForceEvents(team_color, r) ==
    IF r.raised
    THEN <<"Error in " \o team_color \o " Force tick processing: " \o r.err>>
    ELSE r.events

\* the log replaced by the tick's events instead of extended with them
LogAfterTick_Replaced(logs, events_this_tick) == events_this_tick

\* DirectorAgent.orchestrate_simulation: self.event_logs.extend(events_this_tick)
LogAfterTick(logs, events_this_tick) == logs \o events_this_tick

\* DirectorAgent.get_latest_feed: the index the backward scan stops at,
\* 0 when no entry starts with "--- Tick"
LastTickIndex(logs) ==
    LET marks == {i \in 1..Len(logs) : StartsWith(logs[i], "--- Tick")}
    IN  IF marks = {} THEN 0 ELSE CHOOSE i \in marks : \A j \in marks : j <= i

\* get_latest_feed without the test for the empty log
GetLatestFeed_NoSentinel(logs) ==
    IF LastTickIndex(logs) # 0
    THEN JoinLines(SubSeq(logs, LastTickIndex(logs), Len(logs)))
    ELSE JoinLines(logs)

\* get_latest_feed that joins the whole log
GetLatestFeed_WholeLog(logs) ==
    IF Len(logs) = 0 THEN "No events logged yet." ELSE JoinLines(logs)

\* DirectorAgent.get_latest_feed
GetLatestFeed(logs) ==
    IF Len(logs) = 0 THEN "No events logged yet."
    ELSE IF LastTickIndex(logs) # 0
         THEN JoinLines(SubSeq(logs, LastTickIndex(logs), Len(logs)))
         ELSE JoinLines(logs)

\* the branch taken when the command is compared as typed, not lower-cased
CommandBranch_CaseSensitive(command) ==
    IF command = "pause" THEN "pause"
    ELSE IF command = "rewind" THEN "rewind"
    ELSE IF command = "fast forward" THEN "fast forward"
    ELSE IF Contains(command, "redirect")
         THEN IF Contains(command, "red") THEN "red"
              ELSE IF Contains(command, "blue") THEN "blue"
              ELSE "unrecognized redirection"
    ELSE "not recognized"

\* DirectorAgent.receive_user_command: the branch taken
CommandBranch(command) ==
    LET cmd_lower == Lower(command)
    IN  IF cmd_lower = "pause" THEN "pause"
        ELSE IF cmd_lower = "rewind" THEN "rewind"
        ELSE IF cmd_lower = "fast forward" THEN "fast forward"
        ELSE IF Contains(cmd_lower, "redirect")
             THEN IF Contains(cmd_lower, "red") THEN "red"
                  ELSE IF Contains(cmd_lower, "blue") THEN "blue"
                  ELSE "unrecognized redirection"
        ELSE "not recognized"

\* the not-recognized line written without the command (a plain string where
\* the f-string was meant)
CommandLogLine_NoCommand(command) ==
    LET b == CommandBranch(command)
    IN  IF b = "pause" THEN "Simulation paused by user command."
        ELSE IF b = "rewind" THEN "Simulation rewound by user command."
        ELSE IF b = "fast forward"
             THEN "Simulation fast-forwarded by user command."
        ELSE IF b = "red" THEN "Red Force received command: " \o command
        ELSE IF b = "blue" THEN "Blue Force received command: " \o command
        ELSE IF b = "unrecognized redirection"
             THEN "Unrecognized redirection command: " \o command
        ELSE "Command not recognized: {command}"

\* the command appended to the log as typed, without the handler's words
CommandLogLine_Bare(command) == command

\* DirectorAgent.receive_user_command: the line appended to event_logs
CommandLogLine(command) ==
    LET b == CommandBranch(command)
    IN  IF b = "pause" THEN "Simulation paused by user command."
        ELSE IF b = "rewind" THEN "Simulation rewound by user command."
        ELSE IF b = "fast forward"
             THEN "Simulation fast-forwarded by user command."
        ELSE IF b = "red" THEN "Red Force received command: " \o command
        ELSE IF b = "blue" THEN "Blue Force received command: " \o command
        ELSE IF b = "unrecognized redirection"
             THEN "Unrecognized redirection command: " \o command
        ELSE "Command not recognized: " \o command

\* the commands the user issues
Commands ==
    {"pause", "Rewind", "fast forward",
     "redirect red force: move to point A",
     "redirect blue force: hold",
     "redirect to nowhere",
     "status"}

\* the handler invocations recorded in last_op
OpInit == [op |-> "init", arg |-> ""]

OpTick == [op |-> "orchestrate_simulation", arg |-> ""]

OpFeed == [op |-> "get_latest_feed", arg |-> ""]

OpCommand(command) == [op |-> "receive_user_command", arg |-> command]

\* number of commands logged so far
CmdCount == Len(event_logs) - global_state.tick * (2 * num_units + 3)

\* utils/config.py
DDIL_LEVEL == 2

\* DirectorAgent.__init__ (and, before it, the choice of debug mode);
\* SimulationEngine.__init__
\* no caller is inside orchestrate_simulation step by step
NoThreads == <<>>

\* DirectorAgent.__init__ and SimulationEngine.__init__; callers are the
\* threads that will call into the director step by step
ConstructedWith(n, dbg, level, scenario, callers) ==
    /\ num_units = n
    /\ debug_mode = dbg
    /\ global_state = [scenario |-> scenario[1], location |-> scenario[2],
                       situation |-> scenario[3], tick |-> 0]
    /\ event_logs = <<>>
    /\ red_force = NewForceLeader("Red", num_units, "Engage Blue")
    /\ blue_force = NewForceLeader("Blue", num_units, "Defend Position")
    /\ current_tick = 0
    /\ ddil_level = level
    /\ last_op = OpInit
    /\ calls = <<>>
    /\ ret = <<>>
    /\ threads = callers

Constructed(n, dbg, level) ==
    /\ num_units = n
    /\ debug_mode = dbg
    /\ global_state = [scenario |-> "Test Scenario", location |-> "Testville",
                       situation |-> "Initial situation details", tick |-> 0]
    /\ event_logs = <<>>
    /\ red_force = NewForceLeader("Red", num_units, "Engage Blue")
    /\ blue_force = NewForceLeader("Blue", num_units, "Defend Position")
    /\ current_tick = 0
    /\ ddil_level = level
    /\ last_op = OpInit
    /\ calls = <<>>
    /\ ret = <<>>
    /\ threads = NoThreads

\* the program as configured: any number of units up to the bound, with or
\* without debug mode, the degradation level of utils/config.py
Init == \E n \in 0..MaxUnits, dbg \in BOOLEAN : Constructed(n, dbg, DDIL_LEVEL)

----------------------------------------------------------------------------
(* simulation/ddil_emulation.py                                            *)

\* the members of a set of numbers in increasing order
Sorted(S) ==
    Only({[k \in 1..Cardinality(S) |-> CHOOSE i \in S : rank[i] = k - 1] :
          rank \in {[i \in S |-> Cardinality({j \in S : j < i})]}})

\* str.split(sep) for a one-character separator: the pieces between the
\* occurrences of sep; empty pieces are kept
SplitAt(s, sep) ==
    LET cut(at, k) == IF k = 0 THEN 0
                      ELSE IF k > Len(at) THEN Len(s) + 1
                      ELSE at[k]
    IN  Only({[k \in 1..(Len(at) + 1) |->
                 SubSeq(s, cut(at, k - 1) + 1, cut(at, k) - 1)] :
              at \in {Sorted({i \in 1..Len(s) : SubSeq(s, i, i) = sep})}})

\* raw_feed.split("\n")
SplitLines(raw_feed) == SplitAt(raw_feed, "\n")

IsSpace(c) == c \in {" ", "\t"}

\* line.split(), without a separator: the maximal runs of non-whitespace
Split(line) ==
    Only({Only({[k \in 1..Len(starts) |-> SubSeq(line, starts[k], ends[k])] :
                starts \in {Sorted({i \in 1..Len(line) :
                                      inword[i] /\ ~inword[i - 1]})},
                ends \in {Sorted({i \in 1..Len(line) :
                                    inword[i] /\ ~inword[i + 1]})}}) :
          inword \in {[i \in 0..(Len(line) + 1) |->
                        /\ i >= 1
                        /\ i <= Len(line)
                        /\ ~IsSpace(SubSeq(line, i, i))]}})

\* " ".join(words)
RECURSIVE JoinWords(_)
JoinWords(words) ==
    IF words = <<>> THEN ""
    ELSE IF Len(words) = 1 THEN words[1]
    ELSE words[1] \o " " \o JoinWords(Tail(words))

\* the redaction that replaces words of four characters too
Redact_FromFour(line) ==
    LET words == Split(line)
    IN  JoinWords([i \in 1..Len(words) |->
                     IF Len(words[i]) < 4 THEN words[i] ELSE "???"])

\* the redaction that also keeps words of exactly five characters
Redact_KeepFive(line) ==
    LET words == Split(line)
    IN  JoinWords([i \in 1..Len(words) |->
                     IF Len(words[i]) <= 5 THEN words[i] ELSE "???"])

\* process_feed, the obfuscated line: words of five characters or more
\* become "???"
Redact(line) ==
    LET words == Split(line)
    IN  JoinWords([i \in 1..Len(words) |->
                     IF Len(words[i]) < 5 THEN words[i] ELSE "???"])

\* the drop probability without its cap
DropProbability_Uncapped(level) == level * 100

\* process_feed: drop_probability = min(DDIL_LEVEL * 0.1, 0.5), in
\* thousandths; obfuscate_probability is the same number
DropProbability(level) == IF level * 100 < 500 THEN level * 100 ELSE 500

\* values of random.random(), a number of [0, 1), in thousandths
RandomSamples == {0, 100, 499, 500, 999}

\* the loop body with the comparisons made inclusive
LineOutcomes_Inclusive(line, p) ==
    {IF r1 <= p THEN <<>> ELSE IF r2 <= p THEN <<Redact(line)>> ELSE <<line>> :
        r1 \in RandomSamples, r2 \in RandomSamples}

\* process_feed, the body of the loop for one line with the probability p:
\* what it appends to degraded_lines, for every pair of draws
LineOutcomes(line, p) ==
    {IF r1 < p THEN <<>> ELSE IF r2 < p THEN <<Redact(line)>> ELSE <<line>> :
        r1 \in RandomSamples, r2 \in RandomSamples}

\* process_feed, the loop over the lines: the lists degraded_lines can be
RECURSIVE FeedOutcomes(_, _)
FeedOutcomes(lines, p) ==
    IF lines = <<>> THEN {<<>>}
    ELSE {a \o b : a \in LineOutcomes(Head(lines), p),
                   b \in FeedOutcomes(Tail(lines), p)}

\* process_feed(raw_feed) under the level DDIL_LEVEL = level: the strings it
\* can return
ProcessFeedOutcomes(raw_feed, level) ==
    {JoinLines(degraded_lines) :
        degraded_lines \in FeedOutcomes(SplitLines(raw_feed),
                                        DropProbability(level))}

----------------------------------------------------------------------------
(* callers of orchestrate_simulation                                       *)

\* the engine's counter advanced by the tick duration instead of by one
SimulationClock_ByDuration(tick) == tick + 2

\* SimulationEngine.update: self.current_tick += 1
SimulationClock(tick) == tick + 1

OpUpdate == [op |-> "update", arg |-> ""]

\* SimulationEngine.update after the director returned raw_events: the raw
\* feed is their newline-join, the degraded feed what process_feed makes of
\* it, and the pair is returned
EngineReturn(raw_events) ==
    \E raw_feed \in {JoinLines(raw_events)} :
    \E ddil_feed \in ProcessFeedOutcomes(raw_feed, ddil_level) :
        /\ ret' = <<raw_feed, ddil_feed>>
        /\ last_op' = OpUpdate
        /\ current_tick' = SimulationClock(current_tick)

\* the harness of agents/director.py keeps the list orchestrate_simulation
\* returned
DirectorReturn(events) ==
    /\ ret' = events
    /\ last_op' = OpTick
    /\ UNCHANGED current_tick

\* what the caller of orchestrate_simulation does with the list returned:
\* SimulationEngine.update makes the feeds of it, the harness keeps it
Return(caller, events) ==
    IF caller = "update" THEN EngineReturn(events) ELSE DirectorReturn(events)

----------------------------------------------------------------------------
(* agents/director.py: the handlers                                        *)

\* the draws of random.randint(1, 10): one per unit that moves
DeltaDraws(force, outs, dbg) ==
    {d \in [1..Len(force.sub_agents) -> DeltaSamples] :
        \A i \in 1..Len(force.sub_agents) :
            (LowerRaises(outs[i], dbg) \/ ~Moves(SubAgentDecision(outs[i], dbg)))
                => d[i] = MinDelta}

\* DirectorAgent.orchestrate_simulation.  Faults are the ways a force's
\* process_tick may fail in this call, caller is who takes the list returned.
Orchestrate(Faults, caller) ==
    \E red_outs \in [1..(num_units + 1) -> ServiceOutcomes(debug_mode)],
       blue_outs \in [1..(num_units + 1) -> ServiceOutcomes(debug_mode)],
       red_fault \in Faults, blue_fault \in Faults :
    \E red_deltas \in DeltaDraws(red_force, red_outs, debug_mode),
       blue_deltas \in DeltaDraws(blue_force, blue_outs, debug_mode) :
    \E red \in {ForceLeaderTickOrFault(red_force, red_outs, red_deltas,
                                       debug_mode, red_fault)},
       blue \in {ForceLeaderTickOrFault(blue_force, blue_outs, blue_deltas,
                                        debug_mode, blue_fault)} :
        LET tick == global_state.tick + 1
            events_this_tick == <<TickMarker(tick)>> \o ForceEvents("Red", red)
                                \o ForceEvents("Blue", blue)
        IN  /\ global_state' =
                   ForceLeaderGlobalState(blue_force,
                       ForceLeaderGlobalState(red_force,
                           [global_state EXCEPT !.tick = tick]))
            /\ red_force' = red.force
            /\ blue_force' = blue.force
            /\ event_logs' = LogAfterTick(event_logs, events_this_tick)
            /\ calls' = ForceCallsMade(red_force, red_outs, red_fault)
                        \o ForceCallsMade(blue_force, blue_outs, blue_fault)
            /\ Return(caller, events_this_tick)
            /\ UNCHANGED <<num_units, debug_mode, ddil_level, threads>>

\* DirectorAgent.orchestrate_simulation, called on the director itself
OrchestrateSimulation ==
    /\ global_state.tick < MaxTicks
    /\ Len(event_logs) + 2 * num_units + 3 <= MaxLog
    /\ Orchestrate({NoFault}, "harness")

\* DirectorAgent.receive_user_command
CommandEffect(command) ==
    LET b == CommandBranch(command)
    IN  /\ red_force' = IF b = "red"
                        THEN ReceiveDirectOrder(red_force, command)
                        ELSE red_force
        /\ blue_force' = IF b = "blue"
                         THEN ReceiveDirectOrder(blue_force, command)
                         ELSE blue_force
        /\ event_logs' = Append(event_logs, CommandLogLine(command))
        /\ last_op' = OpCommand(command)
        /\ ret' = <<>>
        /\ UNCHANGED <<num_units, debug_mode, global_state, current_tick,
                       ddil_level, threads>>

\* receive_user_command called between two handlers, with a command of the
\* set issued
ReceiveCommandFrom(issued) ==
    /\ CmdCount < MaxCmds
    /\ Len(event_logs) < MaxLog
    /\ \E command \in issued :
        /\ CommandEffect(command)
        /\ calls' = <<>>

\* DirectorAgent.receive_user_command(command) with a command of the user
ReceiveUserCommand == ReceiveCommandFrom(Commands)

\* DirectorAgent.get_latest_feed, called by main() and the module's harness
LatestFeed ==
    /\ last_op # OpFeed
    /\ ret' = <<GetLatestFeed(event_logs)>>
    /\ last_op' = OpFeed
    /\ calls' = <<>>
    /\ UNCHANGED <<num_units, debug_mode, global_state, event_logs, red_force,
                   blue_force, current_tick, ddil_level, threads>>

Next == OrchestrateSimulation \/ ReceiveUserCommand \/ LatestFeed

Spec == Init /\ [][Next]_vars

----------------------------------------------------------------------------
(* simulation/ddil_emulation.py: the degrader on its own                   *)

\* feeds given to process_feed: no text, a tick's feed, a feed with an empty
\* line, runs of whitespace and words of four and five characters, a feed
\* that ends in a newline, and a stretch of the log with the markers of
\* three ticks, the last with the longest number that has four digits
SampleFeeds ==
    {"",
     "--- Tick 9 ---\nRed Leader Decision: Advance north.\n--- Tick 10 ---\nSimulation paused by user command.\n--- Tick 9999 ---",
     "--- Tick 1 ---\nRed_Squad_1 decision: Hold the position. [No movement executed].\nRed Leader Decision: Advance to the next checkpoint.",
     "Hold  enemy\tat gate \n\n  scan four fives",
     "Retreat now\n"}

MaxLevel == 6

\* values of DDIL_LEVEL tried, those outside the documented 1..5 too
Levels == (0 - MaxLevel)..MaxLevel

OpProcessFeed(raw_feed) == [op |-> "process_feed", arg |-> raw_feed]

\* process_feed(raw_feed)
ProcessFeed ==
    \E raw_feed \in SampleFeeds :
    \E degraded_feed \in ProcessFeedOutcomes(raw_feed, ddil_level) :
        /\ ret' = <<degraded_feed>>
        /\ last_op' = OpProcessFeed(raw_feed)
        /\ UNCHANGED <<num_units, debug_mode, global_state, event_logs,
                       red_force, blue_force, current_tick, ddil_level, calls,
                       threads>>

\* the degrader alone under every level
InitDegrade == \E level \in Levels : Constructed(0, TRUE, level)

NextDegrade == ProcessFeed

SpecDegrade == InitDegrade /\ [][NextDegrade]_vars

-----------------------------------------------------------------------------
(* simulation/simulation_engine.py                                         *)

\* the feed of one update has at most this many lines
MaxFeedLines == 5

\* SimulationEngine.update
Update ==
    /\ global_state.tick < MaxTicks
    /\ Len(event_logs) + 2 * num_units + 3 <= MaxLog
    /\ 2 * num_units + 3 <= MaxFeedLines
    /\ Orchestrate({NoFault}, "update")

\* the commands posted to the server
PostedCommands == {"pause", "redirect red force: move to point A"}

\* api_server.send_command: director.receive_user_command(cmd.command)
SendCommand == ReceiveCommandFrom(PostedCommands)

\* the program behind main.py and api/api_server.py: ticks are taken through
\* the engine only
NextEngine == Update \/ SendCommand \/ LatestFeed

SpecEngine == Init /\ [][NextEngine]_vars

\* DirectorAgent.orchestrate_simulation when a force's process_tick may fail
OrchestrateFaulty ==
    /\ global_state.tick < MaxTicks
    /\ Len(event_logs) + 2 * num_units + 3 <= MaxLog
    /\ Orchestrate({NoFault} \cup ForceFaults, "harness")

\* the director with forces that may fail
NextFault == OrchestrateFaulty \/ LatestFeed

SpecFault == Init /\ [][NextFault]_vars

-----------------------------------------------------------------------------
(* One unit driven directly, as the harness at the foot of sub_agent.py    *)
(* drives one: process_tick and update_context in any order.  The unit is  *)
(* the first Red unit of a director with one unit per force.               *)

\* the ticks one unit is driven through
MaxUnitTicks == 2

\* the context entries one unit is driven to
MaxContext == 7

\* random.randint(0, 100) twice in SubAgent.__init__
MinCoordinate == 0

MaxCoordinate == 100

\* the positions a unit is created at
StartSamples ==
    {<<MinCoordinate, MinCoordinate>>, <<MaxCoordinate, MaxCoordinate>>,
     <<37, 82>>}

\* what the service does with a unit's prompt: the dummy client's texts in
\* debug mode; otherwise texts with a movement token in lower and in upper
\* case, a text with none, and failures whose text has none or has one
UnitOutcomes(dbg) ==
    IF dbg THEN {Completion(t) : t \in DummyResponses}
    ELSE {Completion("Advance to the next checkpoint."),
          Completion("Hold the position."),
          Completion("MOVE out."),
          Failure("Connection error."),
          Failure("Request removed from queue.")}

\* the messages handed to update_context
UnitMessages ==
    {"Received direct order: Hold position at current coordinates."}

OpProcessTick == [op |-> "process_tick", arg |-> ""]

OpUpdateContext(message) == [op |-> "update_context", arg |-> message]

\* the unit driven
Unit == red_force.sub_agents[1]

\* the process_tick calls the unit has been through
UnitTicks == Cardinality({k \in 1..Len(Unit.context) :
                             Unit.context[k] \notin UnitMessages})

InitUnit ==
    \E dbg \in BOOLEAN, pos \in StartSamples :
        /\ num_units = 1
        /\ debug_mode = dbg
        /\ global_state = [scenario |-> "Test Scenario", location |-> "Testville",
                           situation |-> "Initial situation details", tick |-> 0]
        /\ event_logs = <<>>
        /\ red_force = [team_color |-> "Red", num_units |-> 1,
                        objective |-> "Engage Blue",
                        sub_agents |-> [i \in 1..1 |->
                            NewSubAgent("Red_Squad_1", "Squad Commander", pos)],
                        event_logs |-> <<>>]
        /\ blue_force = NewForceLeader("Blue", 1, "Defend Position")
        /\ current_tick = 0
        /\ ddil_level = DDIL_LEVEL
        /\ last_op = OpInit
        /\ calls = <<>>
        /\ ret = <<>>
        /\ threads = NoThreads

\* SubAgent.process_tick(local_state) on the unit: calls records the one
\* service call with its prompt, ret the event returned
UnitProcessTick ==
    /\ UnitTicks < MaxUnitTicks
    /\ Len(Unit.context) < MaxContext
    /\ \E out \in UnitOutcomes(debug_mode), delta \in DeltaSamples :
         \E r \in {SubAgentTick(Unit, out, debug_mode, delta)} :
            /\ ~r.raised
            /\ (r.agent.position = Unit.position => delta = MinDelta)
            /\ red_force' = [red_force EXCEPT !.sub_agents[1] = r.agent]
            /\ calls' = <<[caller |-> Unit.id, outcome |-> out,
                           prompt |-> SubAgentPrompt(Unit, global_state)]>>
            /\ ret' = <<r.event>>
    /\ last_op' = OpProcessTick
    /\ UNCHANGED <<num_units, debug_mode, global_state, event_logs,
                   blue_force, current_tick, ddil_level, threads>>

\* SubAgent.update_context(message) on the unit
UnitUpdateContext ==
    /\ Len(Unit.context) < MaxContext
    /\ \E message \in UnitMessages :
        /\ red_force' = [red_force EXCEPT
                            !.sub_agents[1] = UpdateContext(Unit, message)]
        /\ last_op' = OpUpdateContext(message)
    /\ calls' = <<>>
    /\ ret' = <<>>
    /\ UNCHANGED <<num_units, debug_mode, global_state, event_logs,
                   blue_force, current_tick, ddil_level, threads>>

NextUnit == UnitProcessTick \/ UnitUpdateContext

SpecUnit == InitUnit /\ [][NextUnit]_vars

----------------------------------------------------------------------------
(* Vocabulary of the properties.                                           *)

\* the last handler was orchestrate_simulation: ret is the tick's sequence
\* and calls the tick's service calls
TickDone == last_op = OpTick

\* the last handler was get_latest_feed: ret[1] is the feed it returned
FeedDone == last_op = OpFeed

Sides == {"Red", "Blue"}

SquadId(side, i) == side \o "_Squad_" \o ToString(i)

\* place of a side's i-th subordinate, and of its leader, among the service
\* calls of one tick; the event of a call is one place later in the tick's
\* sequence, after the marker
SubCall(side, i) == IF side = "Red" THEN i ELSE num_units + 1 + i

LeaderCall(side) == IF side = "Red" THEN num_units + 1 ELSE 2 * num_units + 2

Force(side) == IF side = "Red" THEN red_force ELSE blue_force

\* an event that belongs to the side's i-th subordinate: its decision event
\* or the substitute error event naming it
IsSubEvent(e, side, i) ==
    \/ StartsWith(e, SquadId(side, i) \o " decision: ")
    \/ StartsWith(e, "Error processing tick for " \o SquadId(side, i) \o ": ")

IsLeaderEvent(e, side) == StartsWith(e, side \o " Leader Decision: ")

Last(seq) == seq[Len(seq)]

\* the string s ends with p
EndsWith(s, p) ==
    Len(s) >= Len(p) /\ SubSeq(s, Len(s) - Len(p) + 1, Len(s)) = p

-----------------------------------------------------------------------------
(* orchestrate_simulation step by step.  A caller is a thread inside the   *)
(* director: it moves from one statement that reads or writes shared state *)
(* to the next, and each call of the decision service is two steps, the    *)
(* request and the return.  threads[w] holds the caller's place (pc) and   *)
(* its local variables.                                                    *)

\* the log entries the step-by-step harness is run to
MaxStepLog == 10

IdleThread ==
    [pc |-> "idle", caller |-> "", tick |-> 0, events_this_tick |-> <<>>,
     side |-> "", i |-> 0, tick_events |-> <<>>, call |-> 0]

\* a decision-service call that has not returned yet
InFlight == [kind |-> "pending", text |-> ""]

\* what the service does with a prompt, step by step: the dummy client's
\* texts in debug mode; otherwise a completion of two lines, a failure, or a
\* completion without content
StepOutcomes(dbg) ==
    IF dbg THEN {Completion(t) : t \in DummyResponses}
    ELSE {Completion("Hold the line.\nThen move north."),
          Failure("Connection error."), NoContent}

\* what the service does with a prompt of a request to the server: it
\* answers (the interleavings of the requests are what is explored there)
ApiOutcomes == {Completion("Hold the position.")}

\* the outcomes of a call made for the given caller of the director
OutcomesFor(caller, dbg) ==
    IF caller = "update" THEN ApiOutcomes ELSE StepOutcomes(dbg)

\* the displacement drawn by a unit that moves, step by step
StepDeltas == {MaxDelta}

\* the loop over self.sub_agents, were a failed call tried again
NextUnitIndex_RetryOnFailure(i, out) == IF out.kind = "raise" THEN i ELSE i + 1

\* for agent in self.sub_agents: on to the next subordinate
NextUnitIndex(i, out) == i + 1

\* calls after a request: the calls of the harness's tick are recorded, with
\* their prompts; those of the server's threads are not
CallsWith(t, call) ==
    IF t.caller = "harness" THEN Append(calls, call) ELSE calls

\* calls after the return of the request the caller was waiting for
CallsReturned(t, out) ==
    IF t.caller = "harness" THEN [calls EXCEPT ![t.call].outcome = out]
    ELSE calls

\* the caller enters ForceLeader.process_tick of a side
EnterForce(t, side) ==
    [t EXCEPT !.side = side, !.i = 1, !.tick_events = <<>>,
              !.pc = IF num_units >= 1 THEN "sub" ELSE "leader"]

SetForce(side, force) ==
    /\ red_force' = IF side = "Red" THEN force ELSE red_force
    /\ blue_force' = IF side = "Blue" THEN force ELSE blue_force

\* orchestrate_simulation called from the harness of director.py:
\* self.global_state["tick"] += 1
StepOrchestrate(w) ==
    /\ threads[w].pc = "idle"
    /\ global_state.tick < MaxTicks
    /\ Len(event_logs) + 2 * num_units + 3 <= MaxStepLog
    /\ global_state' = [global_state EXCEPT !.tick = @ + 1]
    /\ threads' = [threads EXCEPT
                      ![w] = [IdleThread EXCEPT !.pc = "read", !.caller = "harness"]]
    /\ calls' = <<>>
    /\ UNCHANGED <<num_units, debug_mode, event_logs, red_force, blue_force,
                   current_tick, ddil_level, last_op, ret>>

\* tick = self.global_state["tick"], the marker, and into the Red force
ReadTick(w) ==
    /\ threads[w].pc = "read"
    /\ threads' = [threads EXCEPT ![w] =
           EnterForce([@ EXCEPT !.tick = global_state.tick,
                                !.events_this_tick
                                    = <<TickMarker(global_state.tick)>>], "Red")]
    /\ UNCHANGED <<num_units, debug_mode, global_state, event_logs, red_force,
                   blue_force, current_tick, ddil_level, last_op, calls, ret>>

\* SubAgent.process_tick up to the request: the prompt is built and sent
SubRequest(w) ==
    /\ threads[w].pc = "sub"
    /\ \E t \in {threads[w]} :
       \E agent \in {Force(t.side).sub_agents[t.i]} :
         /\ calls' = CallsWith(t,
                [caller |-> agent.id, worker |-> w, tick |-> t.tick,
                 prompt |-> SubAgentPrompt(agent, global_state),
                 outcome |-> InFlight])
         /\ threads' = [threads EXCEPT ![w].pc = "subwait",
                                       ![w].call = Len(calls') ]
    /\ UNCHANGED <<num_units, debug_mode, global_state, event_logs, red_force,
                   blue_force, current_tick, ddil_level, last_op, ret>>

\* the service returns or fails: the rest of SubAgent.process_tick, and the
\* body of the loop of ForceLeader.process_tick around it
SubReturn(w) ==
    /\ threads[w].pc = "subwait"
    /\ \E t \in {threads[w]} :
       \E force \in {Force(t.side)} :
       \E out \in OutcomesFor(t.caller, debug_mode), delta \in StepDeltas :
       \E r \in {SubAgentTick(force.sub_agents[t.i], out, debug_mode, delta)} :
       \E next \in {NextUnitIndex(t.i, out)} :
         /\ SetForce(t.side, [force EXCEPT !.sub_agents[t.i] = r.agent])
         /\ threads' = [threads EXCEPT ![w] =
                [t EXCEPT !.tick_events =
                              Append(@, IF r.raised
                                        THEN "Error processing tick for "
                                             \o force.sub_agents[t.i].id
                                             \o ": " \o r.err
                                        ELSE r.event),
                          !.i = next,
                          !.call = 0,
                          !.pc = IF next <= num_units THEN "sub" ELSE "leader"]]
         /\ calls' = CallsReturned(t, out)
    /\ UNCHANGED <<num_units, debug_mode, global_state, event_logs,
                   current_tick, ddil_level, last_op, ret>>

\* ForceLeader.generate_decision_summary up to the request
LeaderRequest(w) ==
    /\ threads[w].pc = "leader"
    /\ \E t \in {threads[w]} :
         /\ calls' = CallsWith(t,
                [caller |-> t.side \o " Leader", worker |-> w, tick |-> t.tick,
                 prompt |-> LeaderPrompt(Force(t.side), t.tick_events,
                                         global_state),
                 outcome |-> InFlight])
         /\ threads' = [threads EXCEPT ![w].pc = "leaderwait",
                                       ![w].call = Len(calls')]
    /\ UNCHANGED <<num_units, debug_mode, global_state, event_logs, red_force,
                   blue_force, current_tick, ddil_level, last_op, ret>>

\* the service returns or fails: the summary event, the end of
\* ForceLeader.process_tick, and the director's extend of events_this_tick
LeaderReturn(w) ==
    /\ threads[w].pc = "leaderwait"
    /\ \E t \in {threads[w]} :
       \E force \in {Force(t.side)} :
       \E out \in OutcomesFor(t.caller, debug_mode) :
       \E tick_events \in {Append(t.tick_events,
                                 GenerateDecisionSummary(force, out, debug_mode))} :
       \E t1 \in {[t EXCEPT !.events_this_tick = @ \o tick_events, !.call = 0]} :
         /\ SetForce(t.side, [force EXCEPT !.event_logs = @ \o tick_events])
         /\ threads' = [threads EXCEPT ![w] =
                IF t.side = "Red" THEN EnterForce(t1, "Blue")
                ELSE [t1 EXCEPT !.pc = "extend", !.side = "", !.i = 0,
                                !.tick_events = <<>>]]
         /\ calls' = CallsReturned(t, out)
    /\ UNCHANGED <<num_units, debug_mode, global_state, event_logs,
                   current_tick, ddil_level, last_op, ret>>

\* self.event_logs.extend(events_this_tick); return events_this_tick, to the
\* harness of director.py
StepReturn(w) ==
    /\ threads[w].pc = "extend"
    /\ threads[w].caller = "harness"
    /\ event_logs' = LogAfterTick(event_logs, threads[w].events_this_tick)
    /\ ret' = threads[w].events_this_tick
    /\ last_op' = OpTick
    /\ threads' = [threads EXCEPT ![w] = IdleThread]
    /\ UNCHANGED <<num_units, debug_mode, global_state, red_force, blue_force,
                   current_tick, ddil_level, calls>>

\* the steps of a tick under way
InsideTick(w) ==
    \/ ReadTick(w)
    \/ SubRequest(w)
    \/ SubReturn(w)
    \/ LeaderRequest(w)
    \/ LeaderReturn(w)

\* the harness of director.py: one thread
InitSteps ==
    \E n \in 0..MaxUnits, dbg \in BOOLEAN :
        ConstructedWith(n, dbg, DDIL_LEVEL,
                        <<"Test Scenario", "Testville",
                          "Initial situation details">>,
                        [w \in {"main"} |-> IdleThread])

NextSteps ==
    \E w \in DOMAIN threads :
        StepOrchestrate(w) \/ InsideTick(w) \/ StepReturn(w)

\* the one thread runs on, and every service call returns or fails
FairSteps ==
    WF_vars(\E w \in DOMAIN threads : InsideTick(w) \/ StepReturn(w))

SpecSteps == InitSteps /\ [][NextSteps]_vars /\ FairSteps

-----------------------------------------------------------------------------
(* api/api_server.py: get_feed and post_command are plain functions, so    *)
(* the server runs each request on a thread of its pool, and the global    *)
(* director and engine are shared by the threads without a lock.           *)

\* the threads of the pool that take requests
ApiWorkers == {"worker1", "worker2"}

\* the feed_type parameter of GET /feed: the default, and a type the server
\* does not know
FeedTypes == {"raw", "all"}

OpGetFeed(feed_type) == [op |-> "get_feed", arg |-> feed_type]

\* what get_feed answers once update has returned the raw feed
GetFeedResponse(feed_type, raw_feed) ==
    IF Lower(feed_type) = "raw"
    THEN [status |-> 200, feed_type |-> "raw", feed |-> raw_feed]
    ELSE [status |-> 500, feed_type |-> feed_type, feed |-> ""]

\* the command lines in the log
ApiCmdCount ==
    Cardinality({k \in 1..Len(event_logs) :
                    \E c \in PostedCommands : event_logs[k] = CommandLogLine(c)})

\* get_feed up to SimulationEngine.update's self.current_tick += 1
GetFeed(w) ==
    /\ threads[w].pc = "idle"
    /\ current_tick < MaxTicks
    /\ current_tick' = current_tick + 1
    /\ threads' = [threads EXCEPT
                      ![w] = [IdleThread EXCEPT !.pc = "orchestrate",
                                                !.caller = "update"]]
    /\ UNCHANGED <<num_units, debug_mode, global_state, event_logs, red_force,
                   blue_force, ddil_level, last_op, calls, ret>>

\* orchestrate_simulation called by update: self.global_state["tick"] += 1
UpdateOrchestrate(w) ==
    /\ threads[w].pc = "orchestrate"
    /\ global_state' = [global_state EXCEPT !.tick = @ + 1]
    /\ threads' = [threads EXCEPT ![w].pc = "read"]
    /\ UNCHANGED <<num_units, debug_mode, event_logs, red_force, blue_force,
                   current_tick, ddil_level, last_op, calls, ret>>

\* self.event_logs.extend(events_this_tick), the return to update, the raw
\* feed and the response of get_feed
GetFeedReturn(w) ==
    /\ threads[w].pc = "extend"
    /\ threads[w].caller = "update"
    /\ event_logs' = LogAfterTick(event_logs, threads[w].events_this_tick)
    /\ \E feed_type \in FeedTypes :
        /\ ret' = <<GetFeedResponse(feed_type,
                                    JoinLines(threads[w].events_this_tick))>>
        /\ last_op' = OpGetFeed(feed_type)
    /\ threads' = [threads EXCEPT ![w] = IdleThread]
    /\ UNCHANGED <<num_units, debug_mode, global_state, red_force, blue_force,
                   current_tick, ddil_level, calls>>

\* post_command: director.receive_user_command(cmd_request.command)
PostCommand ==
    /\ ApiCmdCount < MaxCmds
    /\ \E command \in PostedCommands :
        /\ CommandEffect(command)
        /\ UNCHANGED calls

\* api_server.py: the global director and engine, and the pool's threads
InitApi ==
    ConstructedWith(2, FALSE, DDIL_LEVEL,
                    <<"API Test Scenario", "API Test Location",
                      "API Test Situation">>,
                    [w \in ApiWorkers |-> IdleThread])

NextApi ==
    \/ \E w \in DOMAIN threads :
           GetFeed(w) \/ UpdateOrchestrate(w) \/ InsideTick(w) \/ GetFeedReturn(w)
    \/ PostCommand

SpecApi == InitApi /\ [][NextApi]_vars

-----------------------------------------------------------------------------
(* The director under commands whose text is, or holds, a tick marker.     *)

\* commands that look like a marker: one not recognized, one redirected to
\* the Red force
MarkerCommands == {"--- Tick 1 ---", "redirect red force: --- Tick 9 ---"}

\* DirectorAgent.receive_user_command(command) with such a command
ReceiveMarkerCommand == ReceiveCommandFrom(MarkerCommands)

NextMarkers == OrchestrateFaulty \/ ReceiveMarkerCommand \/ LatestFeed

SpecMarkers == Init /\ [][NextMarkers]_vars

-----------------------------------------------------------------------------
\* C1: every orchestrate_simulation call, whatever the unit count and the
\* mix of succeeding and failing service calls, returns the tick marker, then
\* the Red subordinates' events in creation order, the Red leader's event,
\* the Blue subordinates' events in creation order and the Blue leader's
\* event, and nothing else.
C1_TickOrder ==
    TickDone =>
        /\ Len(ret) = 2 * num_units + 3
        /\ ret[1] = "--- Tick " \o ToString(global_state.tick) \o " ---"
        /\ \A side \in Sides :
            /\ \A i \in 1..num_units :
                   IsSubEvent(ret[SubCall(side, i) + 1], side, i)
            /\ IsLeaderEvent(ret[LeaderCall(side) + 1], side)

C1_Witness ==
    /\ TickDone
    /\ num_units = 2
    /\ calls[SubCall("Red", 1)].outcome.kind = "raise"
    /\ calls[SubCall("Red", 2)].outcome.kind = "ok"
    /\ calls[LeaderCall("Red")].outcome.kind = "raise"
    /\ calls[SubCall("Blue", 2)].outcome.kind = "raise"
    /\ IsSubEvent(ret[3], "Red", 2)
    /\ IsLeaderEvent(ret[7], "Blue")

\* C2: with no failing service call, one orchestrate_simulation call returns
\* exactly 1 + (N+1) + (N+1) events: 3 for N = 0, 7 for N = 2.
C2_EventCount ==
    (TickDone /\ \A c \in 1..Len(calls) : calls[c].outcome.kind = "ok") =>
        /\ Len(ret) = 1 + (num_units + 1) + (num_units + 1)
        /\ num_units = 0 => Len(ret) = 3
        /\ num_units = 2 => Len(ret) = 7

C2_Witness ==
    /\ TickDone
    /\ num_units = 2
    /\ \A c \in 1..Len(calls) : calls[c].outcome.kind = "ok"
    /\ Len(ret) = 7

\* C3: the tick counter starts at 0, every orchestrate_simulation call
\* raises it by exactly 1 and returns a sequence that starts with the marker
\* of the new tick, and no other handler changes the counter.
C3_TickCounter ==
    /\ global_state.tick = 0
    /\ [][/\ last_op' = OpTick =>
               /\ global_state'.tick = global_state.tick + 1
               /\ ret'[1] = "--- Tick " \o ToString(global_state.tick + 1) \o " ---"
          /\ last_op' # OpTick => global_state'.tick = global_state.tick]_vars

C3_Witness ==
    /\ TickDone
    /\ global_state.tick = 2
    /\ ret[1] = "--- Tick 2 ---"

\* C4: when the service call of a subordinate fails, that subordinate still
\* contributes exactly one event, at its own place; every other subordinate
\* of the side and the side's leader have their event at their place, and
\* the tick still has 2N+3 events.
C4_FailureIsolated ==
    TickDone =>
        \A side \in Sides : \A i \in 1..num_units :
            calls[SubCall(side, i)].outcome.kind = "raise" =>
                /\ Len(ret) = 2 * num_units + 3
                /\ IsSubEvent(ret[SubCall(side, i) + 1], side, i)
                /\ Contains(ret[SubCall(side, i) + 1],
                            calls[SubCall(side, i)].outcome.text)
                /\ \A j \in 1..num_units :
                       (j # i /\ calls[SubCall(side, j)].outcome.kind = "ok") =>
                           StartsWith(ret[SubCall(side, j) + 1],
                                      SquadId(side, j) \o " decision: "
                                      \o calls[SubCall(side, j)].outcome.text)
                /\ IsLeaderEvent(ret[LeaderCall(side) + 1], side)
                /\ EndsWith(ret[LeaderCall(side) + 1],
                            calls[LeaderCall(side)].outcome.text)

C4_Witness ==
    /\ TickDone
    /\ num_units = 2
    /\ calls[SubCall("Red", 1)].outcome.kind = "raise"
    /\ \A c \in 2..Len(calls) : calls[c].outcome.kind = "ok"
    /\ StartsWith(ret[2], "Red_Squad_1 decision: Error generating decision: ")
    /\ StartsWith(ret[3], "Red_Squad_2 decision: Advance")

\* C5: when the service call inside SubAgent.process_tick fails, nothing
\* escapes: the decision is "Error generating decision: <error>", it is
\* annotated, the annotated text is the new last entry of the unit's context
\* and the event "<id> decision: <annotated text>" is returned.
C5_FailureBecomesDecision ==
    TickDone =>
        \A side \in Sides : \A i \in 1..num_units :
            calls[SubCall(side, i)].outcome.kind = "raise" =>
                LET context == Force(side).sub_agents[i].context
                    error == "Error generating decision: "
                             \o calls[SubCall(side, i)].outcome.text
                IN  /\ Len(context) > 0
                    /\ StartsWith(Last(context), error \o " [")
                    /\ \/ Last(context) = error \o " [No movement executed]."
                       \/ StartsWith(Last(context),
                                     error \o " [Movement: position updated from ")
                    /\ ret[SubCall(side, i) + 1] =
                           SquadId(side, i) \o " decision: " \o Last(context)

C5_Witness ==
    /\ TickDone
    /\ num_units = 1
    /\ calls[SubCall("Blue", 1)].outcome = Failure("Connection error.")
    /\ ret[4] = "Blue_Squad_1 decision: Error generating decision: "
                \o "Connection error. [No movement executed]."
    /\ Last(blue_force.sub_agents[1].context) =
           "Error generating decision: Connection error. [No movement executed]."

C7_SentinelBeforeFirstTick ==
    (FeedDone /\ global_state.tick = 0) => ret[1] = "No events logged yet."

\* C7, amended: before the first orchestrate_simulation call, get_latest_feed
\* returns the sentinel when no command has been received, and the newline-join
\* of the whole log (the command lines) once commands have been received.
C7_SentinelOnEmptyLog ==
    (FeedDone /\ global_state.tick = 0) =>
        /\ Len(event_logs) = 0 => ret[1] = "No events logged yet."
        /\ Len(event_logs) > 0 => ret[1] = JoinLines(event_logs)

C7_Witness ==
    /\ FeedDone
    /\ global_state.tick = 0
    /\ event_logs = <<>>
    /\ ret[1] = "No events logged yet."

\* C8: after k >= 1 orchestrate_simulation calls interleaved with commands,
\* get_latest_feed returns the newline-join of the log entries from the
\* marker "--- Tick k ---" to the end of the log: it starts with that marker,
\* holds nothing logged before it and every line logged after it.
C8_FeedFromLastMarker ==
    (FeedDone /\ global_state.tick >= 1) =>
        \E m \in 1..Len(event_logs) :
            /\ event_logs[m] = "--- Tick " \o ToString(global_state.tick) \o " ---"
            /\ ret[1] = JoinLines(SubSeq(event_logs, m, Len(event_logs)))
            /\ StartsWith(ret[1], event_logs[m])

C8_Witness ==
    /\ FeedDone
    /\ global_state.tick = 2
    /\ Len(event_logs) = 7
    /\ event_logs[4] = "--- Tick 2 ---"
    /\ event_logs[7] = "Simulation paused by user command."
    /\ StartsWith(ret[1], "--- Tick 2 ---\nRed Leader Decision: ")
    /\ EndsWith(ret[1], "\nSimulation paused by user command.")

\* the command names the red side: "red" occurs in it (case-insensitively)
\* elsewhere than as the first letters of "redirect"
NamesRed(command) ==
    \E l \in {Lower(command)} :
        \E i \in 1..(Len(l) - 2) :
            /\ SubSeq(l, i, i + 2) = "red"
            /\ ~(i + 7 <= Len(l) /\ SubSeq(l, i, i + 7) = "redirect")

NamesBlue(command) == Contains(Lower(command), "blue")

IsRedirect(command) == Contains(Lower(command), "redirect")

\* C9: a command that contains "redirect" and names neither side appends
\* exactly one "Unrecognized redirection command: ..." line to the log and
\* propagates no order: both forces, their logs and their subordinates'
\* contexts are unchanged.
C9_UnrecognizedRedirection ==
    [][(/\ last_op'.op = "receive_user_command"
        /\ IsRedirect(last_op'.arg)
        /\ ~NamesRed(last_op'.arg)
        /\ ~NamesBlue(last_op'.arg)) =>
            /\ event_logs' = Append(event_logs,
                   "Unrecognized redirection command: " \o last_op'.arg)
            /\ red_force' = red_force
            /\ blue_force' = blue_force]_vars

\* C10: a command that contains "redirect" and names the blue side, not the
\* red one, is given to the Blue ForceLeader's receive_direct_order and logged
\* as "Blue Force received command: ...", and the Red ForceLeader is untouched.
C10_RedirectBlue ==
    [][(/\ last_op'.op = "receive_user_command"
        /\ IsRedirect(last_op'.arg)
        /\ NamesBlue(last_op'.arg)
        /\ ~NamesRed(last_op'.arg)) =>
            /\ event_logs' = Append(event_logs,
                   "Blue Force received command: " \o last_op'.arg)
            /\ blue_force'.event_logs = Append(blue_force.event_logs,
                   "Blue Leader received direct order: " \o last_op'.arg)
            /\ \A i \in 1..num_units :
                   blue_force'.sub_agents[i].context =
                       Append(blue_force.sub_agents[i].context,
                              "Received direct order: " \o last_op'.arg)
            /\ red_force' = red_force]_vars

----------------------------------------------------------------------------
\* Commands and the frame of each handler

RedOrder == "redirect red force: move to point A"

\* the command is one of the three advisory commands, in any letter case
IsAdvisory(command) == Lower(command) \in {"pause", "rewind", "fast forward"}

AdvisoryLine(command) ==
    IF Lower(command) = "pause" THEN "Simulation paused by user command."
    ELSE IF Lower(command) = "rewind" THEN "Simulation rewound by user command."
    ELSE "Simulation fast-forwarded by user command."

CommandDone == last_op.op = "receive_user_command"

\* C11: the command "redirect red force: move to point A" appends one entry
\* to the context of every Red subordinate and one to the Red ForceLeader's
\* log, leaves the Red subordinates' positions and statuses alone, and
\* changes nothing on the Blue side.
C11_RedirectRedFrame ==
    [][last_op' = OpCommand(RedOrder) =>
         /\ Len(red_force'.event_logs) = Len(red_force.event_logs) + 1
         /\ SubSeq(red_force'.event_logs, 1, Len(red_force.event_logs))
              = red_force.event_logs
         /\ Len(red_force'.sub_agents) = num_units
         /\ \A i \in 1..num_units :
              /\ red_force'.sub_agents[i].context =
                   Append(red_force.sub_agents[i].context,
                          "Received direct order: " \o RedOrder)
              /\ red_force'.sub_agents[i].position =
                   red_force.sub_agents[i].position
              /\ red_force'.sub_agents[i].status =
                   red_force.sub_agents[i].status
         /\ blue_force' = blue_force]_vars

C11_Witness ==
    /\ last_op = OpCommand(RedOrder)
    /\ num_units = 2
    /\ \A i \in 1..2 : Last(red_force.sub_agents[i].context)
                         = "Received direct order: " \o RedOrder
    /\ Last(red_force.event_logs)
         = "Red Leader received direct order: " \o RedOrder
    /\ \A i \in 1..2 : blue_force.sub_agents[i].context = <<>>

\* C12: "pause", "rewind" and "fast forward", in any letter case, each append
\* exactly one descriptive line to the director's log and change nothing
\* else: not the tick, not a force, its log or its subordinates; the tick
\* that follows such a command carries the next tick number and has the
\* usual 2N+3 events.
C12_AdvisoryFrame ==
    [][/\ (last_op'.op = "receive_user_command" /\ IsAdvisory(last_op'.arg)) =>
            /\ event_logs' = Append(event_logs, AdvisoryLine(last_op'.arg))
            /\ global_state' = global_state
            /\ red_force' = red_force
            /\ blue_force' = blue_force
       /\ (CommandDone /\ IsAdvisory(last_op.arg) /\ last_op' = OpTick) =>
            /\ global_state'.tick = global_state.tick + 1
            /\ Len(ret') = 2 * num_units + 3
            /\ ret'[1] = "--- Tick " \o ToString(global_state.tick + 1) \o " ---"
      ]_vars

C12_Witness ==
    /\ TickDone
    /\ num_units = 1
    /\ event_logs[1] = "Simulation rewound by user command."
    /\ ret[1] = "--- Tick 1 ---"
    /\ Len(event_logs) = 6

\* the lines the branches of receive_user_command log for a command
CommandLines(command) ==
    {"Simulation paused by user command.",
     "Simulation rewound by user command.",
     "Simulation fast-forwarded by user command.",
     "Red Force received command: " \o command,
     "Blue Force received command: " \o command,
     "Unrecognized redirection command: " \o command,
     "Command not recognized: " \o command}

\* C13: every command takes one branch of receive_user_command and appends
\* exactly one line, one of the branches' lines, to the director's log; a
\* command that is not an advisory command and does not contain "redirect"
\* is logged as "Command not recognized: <command>".
C13_CommandTotal ==
    [][last_op'.op = "receive_user_command" =>
         /\ Len(event_logs') = Len(event_logs) + 1
         /\ SubSeq(event_logs', 1, Len(event_logs)) = event_logs
         /\ Last(event_logs') \in CommandLines(last_op'.arg)
         /\ (~IsAdvisory(last_op'.arg) /\ ~IsRedirect(last_op'.arg)) =>
              Last(event_logs') = "Command not recognized: " \o last_op'.arg
      ]_vars

C13_Witness ==
    /\ last_op = OpCommand("status")
    /\ Len(event_logs) > 1
    /\ Last(event_logs) = "Command not recognized: status"

\* C14: the director's log is append-only: the log before a handler is a
\* prefix of the log after it; orchestrate_simulation appends exactly the
\* sequence it returns; get_latest_feed leaves the log as it is.
C14_LogAppendOnly ==
    [][/\ Len(event_logs') >= Len(event_logs)
       /\ SubSeq(event_logs', 1, Len(event_logs)) = event_logs
       /\ last_op' = OpTick =>
            /\ Len(event_logs') = Len(event_logs) + Len(ret')
            /\ SubSeq(event_logs', Len(event_logs) + 1, Len(event_logs')) = ret'
       /\ last_op' = OpFeed => event_logs' = event_logs]_vars

C14_Witness ==
    /\ TickDone
    /\ global_state.tick = 2
    /\ Len(event_logs) = 6
    /\ event_logs[1] = "--- Tick 1 ---"
    /\ SubSeq(event_logs, 4, 6) = ret

\* C15: only orchestrate_simulation changes the tick, by one; the scenario,
\* location and situation never change; receive_user_command and
\* get_latest_feed leave the whole shared state as it is, and so do the
\* forces and subordinates the state object is handed to during a tick.
C15_SharedStateFrame ==
    [][/\ global_state'.scenario = global_state.scenario
       /\ global_state'.location = global_state.location
       /\ global_state'.situation = global_state.situation
       /\ DOMAIN global_state' = DOMAIN global_state
       /\ last_op'.op # "orchestrate_simulation" => global_state' = global_state
       /\ last_op'.op = "orchestrate_simulation" =>
            global_state'.tick = global_state.tick + 1]_vars

C15_Witness ==
    /\ CommandDone
    /\ num_units = 1
    /\ global_state.tick = 1
    /\ global_state.scenario = "Test Scenario"
    /\ Len(red_force.sub_agents[1].context) >= 1

----------------------------------------------------------------------------
\* The degrader

\* the last handler was process_feed: last_op.arg is the feed it was given,
\* ret[1] the feed it returned
ProcessFeedDone == last_op.op = "process_feed"

SpacedFeed == "Hold  enemy\tat gate \n\n  scan four fives"

\* C16: under a level of zero or less process_feed drops no line and redacts
\* no word: the feed it returns is the feed it was given, character for
\* character.
C16_NoDegradationAtLevelZero ==
    (ProcessFeedDone /\ ddil_level <= 0) => ret[1] = last_op.arg

C16_Witness ==
    /\ last_op = OpProcessFeed(SpacedFeed)
    /\ ddil_level = 0
    /\ ret = <<SpacedFeed>>

Nth(S, k) == CHOOSE i \in S : Cardinality({j \in S : j < i}) = k - 1

\* the words v are the redaction of the words w of a line: word for word in
\* the line's order, a word of five characters or more replaced by "???", a
\* shorter word kept
RedactedWords(v, w) ==
    /\ Len(v) = Len(w)
    /\ \A i \in 1..Len(w) : v[i] = IF Len(w[i]) >= 5 THEN "???" ELSE w[i]

\* the lists of lines a returned feed can be the newline-join of
LineLists(feed) == IF feed = "" THEN {<<>>, <<"">>} ELSE {SplitLines(feed)}

\* the lines of degraded are a subsequence, in order, of the lines of raw,
\* each as it was or redacted
IsDegradationOf(degraded, raw) ==
    \E lines \in {SplitLines(raw)}, out \in LineLists(degraded) :
    \E w \in {[i \in 1..Len(lines) |-> Split(lines[i])]},
       v \in {[j \in 1..Len(out) |-> Split(out[j])]} :
    \E kept \in SUBSET (1..Len(lines)) :
        /\ Cardinality(kept) = Len(out)
        /\ \A j \in 1..Len(out) :
             \E i \in {Nth(kept, j)} :
                 out[j] = lines[i] \/ RedactedWords(v[j], w[i])

\* C18: the lines of the feed process_feed returns are a subsequence, in
\* order, of the lines of the feed it was given: each is taken from its own
\* input line, later lines from later input lines, and is that line as it
\* was or its redaction; no line is added, duplicated or reordered.
C18_OutputIsSubsequence ==
    ProcessFeedDone => IsDegradationOf(ret[1], last_op.arg)

C18_Witness ==
    /\ last_op = OpProcessFeed(SpacedFeed)
    /\ ddil_level = DDIL_LEVEL
    /\ ret = <<"Hold ??? at gate\nscan four ???">>

----------------------------------------------------------------------------
\* The engine

\* the last handler was update: ret is the pair of feeds it returned
UpdateDone == last_op = OpUpdate

\* C19: update calls orchestrate_simulation exactly once: the director's
\* tick and the engine's counter both grow by one and the 2N+3 events of one
\* tick, of which exactly one is a marker, are appended to the log; the raw
\* feed returned has exactly these events as its lines and the degraded feed
\* is a degradation of that raw feed; a command changes neither counter; so
\* after any sequence of updates and commands the two counters are equal.
C19_EngineInStep ==
    /\ [](/\ current_tick = global_state.tick
          /\ UpdateDone =>
               /\ Len(ret) = 2
               /\ Len(event_logs) >= 2 * num_units + 3
               /\ SplitLines(ret[1]) =
                      SubSeq(event_logs, Len(event_logs) - 2 * num_units - 2,
                             Len(event_logs))
               /\ Cardinality({k \in 1..Len(event_logs) :
                      /\ k >= Len(event_logs) - 2 * num_units - 2
                      /\ StartsWith(event_logs[k], "--- Tick")}) = 1
               /\ IsDegradationOf(ret[2], ret[1]))
    /\ [][/\ last_op' = OpUpdate =>
               /\ global_state'.tick = global_state.tick + 1
               /\ current_tick' = current_tick + 1
               /\ Len(event_logs') = Len(event_logs) + 2 * num_units + 3
               /\ SubSeq(event_logs', 1, Len(event_logs)) = event_logs
          /\ last_op'.op = "receive_user_command" =>
               /\ current_tick' = current_tick
               /\ global_state'.tick = global_state.tick]_vars

C19_Witness ==
    /\ UpdateDone
    /\ current_tick = 2
    /\ global_state.tick = 2
    /\ Len(event_logs) = 7
    /\ \E k \in 1..7 : event_logs[k] = "Simulation paused by user command."
    /\ ret[2] # ret[1]

----------------------------------------------------------------------------
\* A force whose process_tick fails

\* the side's process_tick failed in the last tick: its leader's service call
\* was not reached
Faulted(side) ==
    /\ TickDone
    /\ \A k \in 1..Len(calls) : calls[k].caller # side \o " Leader"

IsForceError(e, side) ==
    StartsWith(e, "Error in " \o side \o " Force tick processing: ")

\* the number of events a side contributes to the last tick
BlockLen(side) == IF Faulted(side) THEN 1 ELSE num_units + 1

\* the events a side contributed to the last tick: Red's follow the marker,
\* Blue's follow Red's
Block(side) ==
    IF side = "Red" THEN SubSeq(ret, 2, 1 + BlockLen("Red"))
    ELSE SubSeq(ret, 2 + BlockLen("Red"), 1 + BlockLen("Red") + BlockLen("Blue"))

\* C20: when a force's process_tick fails inside orchestrate_simulation, the
\* tick still returns: its events are the marker, then Red's events, then
\* Blue's, and they are appended to the log; the side that failed contributes
\* exactly one event, "Error in <side> Force tick processing: ...", and the
\* side that did not fail contributes its subordinates' events in order and
\* then its leader's, whichever side failed.
C20_ForceFailureContained ==
    TickDone =>
        /\ ret[1] = "--- Tick " \o ToString(global_state.tick) \o " ---"
        /\ Len(ret) = 1 + BlockLen("Red") + BlockLen("Blue")
        /\ Len(event_logs) >= Len(ret)
        /\ SubSeq(event_logs, Len(event_logs) - Len(ret) + 1, Len(event_logs))
             = ret
        /\ \A side \in Sides :
             IF Faulted(side)
             THEN IsForceError(Block(side)[1], side)
             ELSE /\ \A i \in 1..num_units : IsSubEvent(Block(side)[i], side, i)
                  /\ IsLeaderEvent(Block(side)[num_units + 1], side)

C20_Witness ==
    /\ TickDone
    /\ num_units = 2
    /\ Faulted("Red")
    /\ ~Faulted("Blue")
    /\ ret[2] = "Error in Red Force tick processing: unexpected failure"
    /\ IsSubEvent(ret[3], "Blue", 1)
    /\ IsLeaderEvent(ret[5], "Blue")
    /\ Len(ret) = 5

----------------------------------------------------------------------------
\* Orders and the make-up of a force

\* the side's ForceLeader received an order in the step: its own log grew
GotOrder(side) ==
    IF side = "Red"
    THEN Len(red_force'.event_logs) = Len(red_force.event_logs) + 1
    ELSE Len(blue_force'.event_logs) = Len(blue_force.event_logs) + 1

ForceAfter(side) == IF side = "Red" THEN red_force' ELSE blue_force'

\* the frame of receive_direct_order(order) on a side, entry being what each
\* subordinate's context gains: one line in the leader's log, one entry per
\* subordinate, positions and statuses as they were
OrderFrame(side, order, entry) ==
    /\ ForceAfter(side).event_logs =
         Append(Force(side).event_logs,
                side \o " Leader received direct order: " \o order)
    /\ Len(ForceAfter(side).sub_agents) = num_units
    /\ \A i \in 1..num_units :
         /\ ForceAfter(side).sub_agents[i].context =
              Append(Force(side).sub_agents[i].context, entry)
         /\ ForceAfter(side).sub_agents[i].position =
              Force(side).sub_agents[i].position
         /\ ForceAfter(side).sub_agents[i].status =
              Force(side).sub_agents[i].status
         /\ ForceAfter(side).sub_agents[i].id = Force(side).sub_agents[i].id

\* the rest of the frame of a command: no event is returned, the decision
\* service is not called, the tick is as it was, a side that got no order is
\* as it was
NoTickEffect ==
    /\ ret' = <<>>
    /\ calls' = <<>>
    /\ global_state' = global_state
    /\ \A side \in Sides : ~GotOrder(side) => ForceAfter(side) = Force(side)

\* C22 as stated: receive_direct_order(order) appends one entry to the
\* force's log and gives every subordinate exactly one new context entry, the
\* order text itself; no event, no service call, positions and tick unchanged.
C22_OrderTextInContext ==
    [][last_op'.op = "receive_user_command" =>
         /\ NoTickEffect
         /\ \A side \in Sides :
              GotOrder(side) => OrderFrame(side, last_op'.arg, last_op'.arg)
      ]_vars

\* C22: receive_direct_order(order) appends one entry to the force's log and
\* gives every subordinate exactly one new context entry, "Received direct
\* order: " followed by the order text; no event, no service call, positions
\* and tick unchanged.
C22_OrderEntryInContext ==
    [][last_op'.op = "receive_user_command" =>
         /\ NoTickEffect
         /\ \A side \in Sides :
              GotOrder(side) =>
                  OrderFrame(side, last_op'.arg,
                             "Received direct order: " \o last_op'.arg)
      ]_vars

C22_Witness ==
    /\ CommandDone
    /\ num_units = 1
    /\ global_state.tick = 1
    /\ Len(red_force.event_logs) = 3
    /\ Last(red_force.event_logs)
         = "Red Leader received direct order: " \o last_op.arg
    /\ Len(red_force.sub_agents[1].context) = 2
    /\ Last(red_force.sub_agents[1].context)
         = "Received direct order: " \o last_op.arg

\* C23: each force owns exactly num_units subordinates, the i-th with the id
\* "<side>_Squad_<i>"; no id occurs twice, on one side or across the sides;
\* this holds at construction and after every tick and command.
C23_SubordinatesFixed ==
    /\ \A side \in Sides :
         /\ Len(Force(side).sub_agents) = num_units
         /\ \A i \in 1..num_units :
              Force(side).sub_agents[i].id = side \o "_Squad_" \o ToString(i)
    /\ Cardinality({Force(side).sub_agents[i].id :
                      side \in Sides, i \in 1..num_units}) = 2 * num_units

C23_Witness ==
    /\ TickDone
    /\ num_units = 2
    /\ red_force.sub_agents[2].id = "Red_Squad_2"
    /\ blue_force.sub_agents[1].id = "Blue_Squad_1"
    /\ Len(red_force.sub_agents[2].context) = 1

-----------------------------------------------------------------------------
(* One unit: movement, context and prompt.                                 *)

\* the last handler was the unit's process_tick: ret[1] is its event and
\* calls[1] its one service call
UnitTickDone == last_op = OpProcessTick

\* the text the unit took as its decision, read off the service's answer
DecisionText(call) ==
    IF call.outcome.kind = "raise"
    THEN "Error generating decision: " \o call.outcome.text
    ELSE IF debug_mode
    THEN "Error generating decision: 'Message' object has no attribute 'get'"
    ELSE call.outcome.text

HasMovementToken(text) ==
    \E low \in {Lower(text)} : Contains(low, "advance") \/ Contains(low, "move")

\* C21: when the decision text of a process_tick contains "advance" or "move"
\* in any letter case, both coordinates grow by one same integer between 1
\* and 10 and the decision is followed by the annotation naming the old and
\* the new position; otherwise the position stays and the decision is
\* followed by " [No movement executed].", which then ends the event.
C21_MovementHeuristic ==
    [][last_op' = OpProcessTick =>
         \E d \in {DecisionText(calls'[1])} :
            \E old \in {Unit.position}, new \in {Unit'.position} :
               IF HasMovementToken(d)
               THEN /\ \E delta \in 1..10 :
                          new = <<old[1] + delta, old[2] + delta>>
                    /\ ret'[1] = Unit.id \o " decision: " \o d
                           \o " [Movement: position updated from "
                           \o PosStr(old) \o " to " \o PosStr(new) \o "]."
               ELSE /\ new = old
                    /\ ret'[1] = Unit.id \o " decision: " \o d
                           \o " [No movement executed]."
                    /\ EndsWith(ret'[1], "[No movement executed].")
      ]_vars

C21_Witness ==
    /\ UnitTickDone
    /\ Len(Unit.context) = 2
    /\ Unit.context[1] = "Hold the position. [No movement executed]."
    /\ Unit.context[2]
         = "MOVE out. [Movement: position updated from (37, 82) to (47, 92)]."
    /\ Unit.position = <<47, 92>>

\* the tail of a prompt that carries the given context entries
PromptTail(entries) ==
    "Past Context:\n" \o JoinLines(entries) \o "\n" \o SubAgentInstruction

C29_DiagonalMovement ==
    /\ [](\E pos \in StartSamples :
            /\ Unit.position[1] - Unit.position[2] = pos[1] - pos[2]
            /\ Unit.position[1] >= pos[1])
    /\ [][\E old \in {Unit.position}, new \in {Unit'.position} :
            /\ new[1] >= old[1]
            /\ new[2] >= old[2]
            /\ new[1] - new[2] = old[1] - old[2]
            /\ new[1] - old[1] \in 0..10
            /\ last_op'.op = "update_context" => new = old
        ]_vars

C29_Witness ==
    /\ UnitTickDone
    /\ UnitTicks = 2
    /\ Unit.position = <<48, 93>>

-----------------------------------------------------------------------------
\* The feed after a tick

\* C30: get_latest_feed called right after update returns the raw feed that
\* update returned, the newline-join of the tick's events; called after a
\* command that followed the tick, it returns that raw feed, a newline and
\* the line the command logged.
C30_FeedAfterTick ==
    [][last_op' = OpFeed =>
         /\ UpdateDone => /\ ret'[1] = ret[1]
                          /\ ret'[1] = JoinLines(SubSeq(event_logs,
                                 Len(event_logs) - 2 * num_units - 2,
                                 Len(event_logs)))
         /\ (/\ CommandDone
             /\ Len(event_logs) >= 2 * num_units + 4
             /\ event_logs[Len(event_logs) - 2 * num_units - 3]
                  = "--- Tick " \o ToString(global_state.tick) \o " ---")
            => ret'[1] = JoinLines(SubSeq(event_logs,
                                Len(event_logs) - 2 * num_units - 3,
                                Len(event_logs) - 1))
                         \o "\n" \o Last(event_logs)
      ]_vars

C30_Witness ==
    /\ FeedDone
    /\ num_units = 1
    /\ current_tick = 1
    /\ Len(event_logs) = 6
    /\ event_logs[2] = "Red_Squad_1 decision: Advance to the next checkpoint. [Movement: position updated from (10, 5) to (20, 15)]."
    /\ event_logs[6] = "Red Force received command: redirect red force: move to point A"
    /\ ret[1] = JoinLines(event_logs)
    /\ EndsWith(ret[1], "\n" \o event_logs[6])

-----------------------------------------------------------------------------
\* One tick, step by step

\* the harness's thread
Main == threads["main"]

\* the harness's thread is back from orchestrate_simulation
StepTickDone == Main.pc = "idle" /\ last_op = OpTick

\* the caller of the k-th service call of a tick is the one the fixed order
\* puts there
InCallOrder(k) ==
    \A side \in Sides :
        /\ LeaderCall(side) = k => calls[k].caller = side \o " Leader"
        /\ \A i \in 1..num_units :
              SubCall(side, i) = k => calls[k].caller = SquadId(side, i)

\* C24: the service calls of one orchestrate_simulation are made in the
\* fixed order (Red subordinates 1..N, Red leader, Blue subordinates 1..N,
\* Blue leader), each caller once whether its call returns or fails, so 2N+2
\* calls when the tick is over; and as every call returns or fails, a tick
\* that was entered is left.
C24_CallsInOrderAndTermination ==
    /\ [](/\ Len(calls) <= 2 * num_units + 2
          /\ \A k \in 1..Len(calls) : InCallOrder(k)
          /\ StepTickDone =>
                /\ Len(calls) = 2 * num_units + 2
                /\ \A k \in 1..Len(calls) : calls[k].outcome # InFlight)
    /\ (Main.pc # "idle") ~> (Main.pc = "idle")

C24_Witness ==
    /\ StepTickDone
    /\ num_units = 2
    /\ Len(calls) = 6
    /\ calls[2].caller = "Red_Squad_2"
    /\ calls[2].outcome = Failure("Connection error.")
    /\ calls[3].caller = "Red Leader"
    /\ calls[6].outcome = Failure("Connection error.")

\* the lines "- <event>" of a leader's prompt
RECURSIVE Bullets(_)
Bullets(events) ==
    IF Len(events) = 0 THEN ""
    ELSE Bullets(SubSeq(events, 1, Len(events) - 1))
         \o "- " \o Last(events) \o "\n"

\* the place in the tick's sequence where a side's block begins
BlockStart(side) == IF side = "Red" THEN 2 ELSE num_units + 3

\* C25: a leader's call comes after the calls of all N subordinates of its
\* side; its prompt lists exactly the N events those subordinates produced in
\* this tick (error events included), in creation order, and names the tick
\* under way; when the call fails the leader's event is "<Side> Leader
\* Decision: Error generating decision summary: <error>", and either way it
\* is the last event of the side's block.
C25_LeaderSummarisesThisTick ==
    StepTickDone =>
        \A side \in Sides :
        \E call \in {calls[LeaderCall(side)]},
           subs \in {SubSeq(ret, BlockStart(side),
                            BlockStart(side) + num_units - 1)},
           summary \in {ret[BlockStart(side) + num_units]} :
            /\ call.caller = side \o " Leader"
            /\ \A i \in 1..num_units :
                  /\ calls[LeaderCall(side) - num_units - 1 + i].caller
                        = SquadId(side, i)
                  /\ IsSubEvent(subs[i], side, i)
            /\ call.prompt =
                  "As the " \o side \o " Force Leader with objective '"
                  \o Force(side).objective
                  \o "', review the following events:\n"
                  \o Bullets(subs)
                  \o "Current simulation tick: "
                  \o ToString(global_state.tick) \o "\n"
                  \o "Based on these events, what is the most reasonable next action for your force? Provide a concise summary."
            /\ IsLeaderEvent(summary, side)
            /\ call.outcome.kind = "raise" =>
                  summary = side \o " Leader Decision: "
                            \o "Error generating decision summary: "
                            \o call.outcome.text
            /\ SubSeq(Force(side).event_logs,
                      Len(Force(side).event_logs) - num_units,
                      Len(Force(side).event_logs)) = Append(subs, summary)

C25_Witness ==
    /\ StepTickDone
    /\ num_units = 1
    /\ global_state.tick = 2
    /\ calls[1].outcome = NoContent
    /\ calls[2].outcome = Failure("Connection error.")
    /\ StartsWith(ret[2], "Error processing tick for Red_Squad_1: ")
    /\ ret[3] = "Red Leader Decision: Error generating decision summary: Connection error."
    /\ Contains(calls[2].prompt, "- " \o ret[2] \o "\nCurrent simulation tick: 2\n")
    /\ Len(red_force.event_logs) = 4

\* C27: every event orchestrate_simulation returns and every entry of the
\* log is one line, so the newline-join of a tick's events has as many lines
\* as the tick has events.
C27_EventsSingleLine ==
    /\ \A k \in 1..Len(event_logs) : ~Contains(event_logs[k], "\n")
    /\ StepTickDone =>
          /\ \A k \in 1..Len(ret) : ~Contains(ret[k], "\n")
          /\ Len(SplitLines(JoinLines(ret))) = Len(ret)

-----------------------------------------------------------------------------
\* Requests to the server

\* the threads inside a request for the feed
Inside == {w \in DOMAIN threads : threads[w].pc # "idle"}

\* the places of the tick markers in the log
Markers == {k \in 1..Len(event_logs) : StartsWith(event_logs[k], "--- Tick")}

\* C28: through the server one tick runs to completion before the next tick
\* or command starts: at most one request is inside update, no command is
\* applied while one is, the tick number a request read is the director's
\* tick for as long as the request is inside, and no two markers of the log
\* carry the same tick number.
C28_TicksSerialised ==
    /\ Cardinality(Inside) <= 1
    /\ CommandDone => Inside = {}
    /\ \A w \in Inside :
          threads[w].pc \notin {"orchestrate", "read"}
              => threads[w].tick = global_state.tick
    /\ \A j \in Markers, k \in Markers :
          j # k => event_logs[j] # event_logs[k]

-----------------------------------------------------------------------------
\* Markers of the log

\* C31: in sequential use the entries of the log that start with "--- Tick"
\* are as many as the tick counter says and the i-th of them is exactly
\* "--- Tick i ---"; no command line, decision event or error event starts
\* so, and get_latest_feed begins its feed at the marker of the last tick.
C31_MarkersCountTicks ==
    /\ Cardinality(Markers) = global_state.tick
    /\ \A i \in 1..Cardinality(Markers) :
          event_logs[Nth(Markers, i)] = "--- Tick " \o ToString(i) \o " ---"
    /\ \A k \in 1..Len(event_logs) :
          (\/ Contains(event_logs[k], "command")
           \/ Contains(event_logs[k], "Command")
           \/ Contains(event_logs[k], "ecision: ")
           \/ StartsWith(event_logs[k], "Error ")) => k \notin Markers
    /\ (FeedDone /\ global_state.tick >= 1) =>
          ret[1] = JoinLines(SubSeq(event_logs,
                                    Nth(Markers, global_state.tick),
                                    Len(event_logs)))

C31_Witness ==
    /\ FeedDone
    /\ global_state.tick = 2
    /\ Cardinality(Markers) = 2
    /\ \E k \in 1..Len(event_logs) :
          /\ event_logs[k] = "Command not recognized: --- Tick 1 ---"
          /\ k > Nth(Markers, 2)
    /\ \E k \in 1..Len(event_logs) :
          StartsWith(event_logs[k], "Error in Red Force tick processing: ")
    /\ StartsWith(ret[1], "--- Tick 2 ---\n")

-----------------------------------------------------------------------------
\* Movement after a failed call

\* the words put before the error message of a failed call
ErrorPrefix == "Error generating decision: "

\* C32: when the decision of a process_tick is the text substituted for a
\* failed call, the unit stays where it is and its event ends with
\* "[No movement executed]." exactly when the error message contains neither
\* "advance" nor "move" (in any letter case); when the message contains one
\* of them the unit moves and the event ends with the movement annotation.
C32_HeuristicOnErrorText ==
    [][last_op' = OpProcessTick =>
         \E d \in {DecisionText(calls'[1])} :
            StartsWith(d, ErrorPrefix) =>
               \E token \in {HasMovementToken(
                                 SubSeq(d, Len(ErrorPrefix) + 1, Len(d)))},
                  old \in {Unit.position}, new \in {Unit'.position} :
                  /\ ((new = old /\ EndsWith(ret'[1], "[No movement executed]."))
                        <=> ~token)
                  /\ token =>
                        /\ new[1] > old[1]
                        /\ new[2] > old[2]
                        /\ EndsWith(ret'[1],
                               " [Movement: position updated from "
                               \o PosStr(old) \o " to " \o PosStr(new) \o "].")
      ]_vars

C32_Witness ==
    /\ UnitTickDone
    /\ calls[1].outcome = Failure("Request removed from queue.")
    /\ Unit.position = <<47, 92>>
    /\ ret[1] = "Red_Squad_1 decision: Error generating decision: Request removed from queue. [Movement: position updated from (37, 82) to (47, 92)]."

-----------------------------------------------------------------------------
\* Markers in a degraded feed

\* the tick numbers of the markers in the feeds tried
MarkerTicks == {1, 9, 10, 9999}

\* the line is the marker of tick n
IsMarkerOf(line, n) == line = "--- Tick " \o ToString(n) \o " ---"

IsMarker(line) == \E n \in MarkerTicks : IsMarkerOf(line, n)

\* the tick number of a marker
TickOf(line) == CHOOSE n \in MarkerTicks : IsMarkerOf(line, n)

\* C33: process_feed never alters a marker "--- Tick n ---" with n < 10000:
\* the lines of the degraded feed come, in order, from lines of the raw feed,
\* a line that comes from a marker is that marker byte for byte, no other
\* line looks like a marker, and so the markers of the degraded feed are
\* markers of the raw feed in increasing tick order; a marker can only be
\* missing.
C33_MarkersSurviveRedaction ==
    ProcessFeedDone =>
        \E lines \in {SplitLines(last_op.arg)}, out \in LineLists(ret[1]) :
            /\ \E kept \in SUBSET (1..Len(lines)) :
                  /\ Cardinality(kept) = Len(out)
                  /\ \A j \in 1..Len(out) :
                       \E i \in {Nth(kept, j)} :
                          IF IsMarker(lines[i]) THEN out[j] = lines[i]
                          ELSE ~StartsWith(out[j], "--- Tick")
            /\ \A j \in 1..Len(out) :
                  StartsWith(out[j], "--- Tick") =>
                      /\ IsMarker(out[j])
                      /\ TickOf(out[j]) < 10000
                      /\ \A k \in 1..(j - 1) :
                            IsMarker(out[k]) => TickOf(out[k]) < TickOf(out[j])

C33_Witness ==
    /\ ProcessFeedDone
    /\ ddil_level = DDIL_LEVEL
    /\ ret = <<"--- Tick 9 ---\nRed ??? ??? ??? ???\n--- Tick 9999 ---">>

====
